---- MODULE Spec2Model ----
(***************************************************************************)
(* Employee / shift / assignment scheduling tool.                          *)
(*                                                                         *)
(* Layers modelled: the persistence layer (JSON files read and written as  *)
(* whole arrays), the business layer (business.js) and, for the pure       *)
(* functions that exist twice, the monolithic variant (assignment1.js).    *)
(*                                                                         *)
(* A JavaScript string is a sequence of one-character strings, so that     *)
(* trim, substring, padStart, concatenation and the code-unit order used   *)
(* by the relational operators are computed and not assumed.               *)
(***************************************************************************)
EXTENDS Integers, Sequences, FiniteSets, Bags, TLC

(***************************************************************************)
(* Bounds of the model.                                                    *)
(***************************************************************************)
MaxEmployees == 2
MaxAssignments == 3
MaxRows == 3
MaxIds == 2
MaxSuffix == 2
RegisterStart == 996
MaxRegister == 1001

(***************************************************************************)
(* Strings.                                                                *)
(***************************************************************************)
\* UTF-16 code unit of the characters the model uses.
Code(c) ==
    CASE c = " " -> 32
      [] c = "-" -> 45
      [] c = "0" -> 48
      [] c = "1" -> 49
      [] c = "2" -> 50
      [] c = "3" -> 51
      [] c = "4" -> 52
      [] c = "5" -> 53
      [] c = "6" -> 54
      [] c = "7" -> 55
      [] c = "8" -> 56
      [] c = "9" -> 57
      [] c = ":" -> 58
      [] c = "E" -> 69
      [] c = "S" -> 83
      [] c = "Z" -> 90
      [] c = "a" -> 97
      [] c = "d" -> 100
      [] c = "e" -> 101
      [] c = "f" -> 102
      [] c = "i" -> 105
      [] c = "n" -> 110
      [] c = "u" -> 117

Digit == {"0", "1", "2", "3", "4", "5", "6", "7", "8", "9"}

IsWhite(c) == c = " "

\* a < b on JavaScript strings: lexicographic on code units, a proper
\* prefix is smaller.
RECURSIVE LessStr(_, _)
LessStr(a, b) ==
    IF b = <<>> THEN FALSE
    ELSE IF a = <<>> THEN TRUE
    ELSE IF Code(Head(a)) < Code(Head(b)) THEN TRUE
    ELSE IF Code(Head(a)) > Code(Head(b)) THEN FALSE
    ELSE LessStr(Tail(a), Tail(b))

GreaterStr(a, b) == LessStr(b, a)

RECURSIVE TrimStart(_)
TrimStart(s) ==
    IF s # <<>> /\ IsWhite(Head(s)) THEN TrimStart(Tail(s)) ELSE s

RECURSIVE TrimEnd(_)
TrimEnd(s) ==
    IF s # <<>> /\ IsWhite(s[Len(s)]) THEN TrimEnd(SubSeq(s, 1, Len(s) - 1)) ELSE s

\* String.prototype.trim
Trim(s) == TrimEnd(TrimStart(s))

\* String.prototype.substring(1)
Substring1(s) == IF s = <<>> THEN <<>> ELSE Tail(s)

\* String.prototype.padStart(width, "0")
RECURSIVE PadStart(_, _)
PadStart(s, width) ==
    IF Len(s) >= width THEN s ELSE PadStart(<<"0">> \o s, width)

DigitChar(d) ==
    CASE d = 0 -> "0" [] d = 1 -> "1" [] d = 2 -> "2" [] d = 3 -> "3"
      [] d = 4 -> "4" [] d = 5 -> "5" [] d = 6 -> "6" [] d = 7 -> "7"
      [] d = 8 -> "8" [] d = 9 -> "9"

DigitValue(c) == Code(c) - Code("0")

\* String(n) for a non-negative integer n.
RECURSIVE NatToString(_)
NatToString(n) ==
    IF n < 10 THEN <<DigitChar(n)>>
    ELSE NatToString(n \div 10) \o <<DigitChar(n % 10)>>

RECURSIVE DigitsValue(_, _)
DigitsValue(s, acc) ==
    IF s = <<>> THEN acc
    ELSE DigitsValue(Tail(s), acc * 10 + DigitValue(Head(s)))

AllDigits(s) == \A k \in 1..Len(s) : s[k] \in Digit

(***************************************************************************)
(* JavaScript values: a string, a number or undefined.                     *)
(***************************************************************************)
Str(s) == [t |-> "string", s |-> s, n |-> 0]
Num(n) == [t |-> "number", s |-> <<>>, n |-> n]
Undefined == [t |-> "undefined", s |-> <<>>, n |-> 0]

strUndefined == <<"u", "n", "d", "e", "f", "i", "n", "e", "d">>

\* String(v)
JsString(v) ==
    IF v.t = "string" THEN v.s
    ELSE IF v.t = "number" THEN NatToString(v.n)
    ELSE strUndefined

\* v is falsy: undefined, the empty string, 0.
Falsy(v) ==
    \/ v.t = "undefined"
    \/ v.t = "string" /\ v.s = <<>>
    \/ v.t = "number" /\ v.n = 0

\* String(v || "").trim()
TrimArg(v) == Trim(IF Falsy(v) THEN <<>> ELSE JsString(v))

\* v === s for a string s
StrictEq(v, s) == v.t = "string" /\ v.s = s

\* Number(s) on strings over digits, blanks and letters that occur in no
\* numeric literal: blank-trimmed, "" is 0, a digit string is its decimal
\* value, anything else is NaN.
ToNumber(s) ==
    LET t == Trim(s) IN
    IF t = <<>> THEN [nan |-> FALSE, val |-> 0]
    ELSE IF AllDigits(t) THEN [nan |-> FALSE, val |-> DigitsValue(t, 0)]
    ELSE [nan |-> TRUE, val |-> 0]

\* a > b on numbers: false when either side is NaN
NumGreater(a, b) == ~a.nan /\ a.val > b

(***************************************************************************)
(* Outcome of a call that may throw.                                       *)
(***************************************************************************)
Ok(v) == [threw |-> FALSE, value |-> v]
Thrown == [threw |-> TRUE, value |-> <<>>]

(***************************************************************************)
(* Identifier generator.                                                   *)
(***************************************************************************)
\* Number(String(id).substring(1)) of business.js
SuffixNumber(id) == ToNumber(Substring1(JsString(id)))

Max(S) == CHOOSE m \in S : \A n \in S : n <= m
Min(S) == CHOOSE m \in S : \A n \in S : m <= n

\* what the for loop leaves in maxNumber: it starts at 0 and takes every
\* number that is greater; NaN is greater than nothing
MaxNumber(numbers) == Max({0} \cup {m.val : m \in {n \in numbers : ~n.nan}})

FormatEmployeeId(maxNumber) == <<"E">> \o PadStart(NatToString(maxNumber + 1), 3)

\* getNextEmployeeId that forgets to step past the maximum
getNextEmployeeIdNoStep(employees) ==
    <<"E">> \o PadStart(NatToString(
        MaxNumber({SuffixNumber(employees[i].employeeId) : i \in DOMAIN employees})), 3)

\* business.js getNextEmployeeId
getNextEmployeeId(employees) ==
    FormatEmployeeId(
        MaxNumber({SuffixNumber(employees[i].employeeId) : i \in DOMAIN employees}))

\* assignment1.js getNextEmployeeId: id.substring is called on the stored
\* value itself, a TypeError when it is no string
getNextEmployeeIdA1(employees) ==
    IF \E i \in DOMAIN employees : employees[i].employeeId.t # "string" THEN Thrown
    ELSE Ok(FormatEmployeeId(
             MaxNumber({ToNumber(Substring1(employees[i].employeeId.s)) :
                            i \in DOMAIN employees})))

(***************************************************************************)
(* Persistence layer. A file is missing, holds text that is no JSON,       *)
(* holds a JSON value that is no array (an object wrapping some records),  *)
(* or holds a JSON array.                                                  *)
(***************************************************************************)
MissingFile == [kind |-> "missing", data |-> <<>>]
InvalidFile == [kind |-> "invalid", data |-> <<>>]
ObjectFile(records) == [kind |-> "object", data |-> records]
ArrayFile(records) == [kind |-> "array", data |-> records]

\* fs.readFile: rejects when the file does not exist
fsReadFile(file) == IF file.kind = "missing" THEN Thrown ELSE Ok(file)

\* JSON.parse: throws on text that is no JSON
jsonParse(text) == IF text.kind = "invalid" THEN Thrown ELSE Ok(text)

\* readJsonArray without the Array.isArray test
readJsonArrayAnyShape(file) ==
    LET text == fsReadFile(file) IN
    IF text.threw THEN Ok(<<>>)
    ELSE LET data == jsonParse(text.value) IN
         IF data.threw THEN Ok(<<>>) ELSE Ok(data.value.data)

readJsonArray(file) ==
    LET text == fsReadFile(file) IN
    IF text.threw THEN Ok(<<>>)
    ELSE LET data == jsonParse(text.value) IN
         IF data.threw THEN Ok(<<>>)
         ELSE IF data.value.kind = "array" THEN Ok(data.value.data)
         ELSE Ok(<<>>)

writeJsonArray(data) == ArrayFile(data)

getAllEmployees(store) == readJsonArray(store.employees)

\* the first element a linear scan returns, or undefined
First(list, hits) ==
    IF hits = {} THEN [found |-> FALSE, item |-> <<>>]
    ELSE [found |-> TRUE, item |-> list[Min(hits)]]

FirstEmployee(employees, employeeId) ==
    First(employees, {i \in DOMAIN employees : StrictEq(employees[i].employeeId, employeeId)})

\* findEmployee that compares the first employee only
findEmployeeFirstOnly(store, employeeId) ==
    LET employees == readJsonArray(store.employees) IN
    IF employees.threw THEN Thrown
    ELSE Ok(First(employees.value,
                  {i \in DOMAIN employees.value :
                      i = 1 /\ StrictEq(employees.value[i].employeeId, employeeId)}))

findEmployee(store, employeeId) ==
    LET employees == readJsonArray(store.employees) IN
    IF employees.threw THEN Thrown
    ELSE Ok(FirstEmployee(employees.value, employeeId))

\* the new content of employees.json
addEmployee(store, employee) ==
    LET employees == readJsonArray(store.employees) IN
    IF employees.threw THEN Thrown
    ELSE Ok(writeJsonArray(Append(employees.value, employee)))

FirstShift(shifts, shiftId) ==
    First(shifts, {i \in DOMAIN shifts : shifts[i].shiftId = shiftId})

findShift(store, shiftId) ==
    LET shifts == readJsonArray(store.shifts) IN
    IF shifts.threw THEN Thrown
    ELSE Ok(FirstShift(shifts.value, shiftId))

\* addAssignment that writes the new record without the ones on file
addAssignmentAlone(store, assignment) == Ok(writeJsonArray(<<assignment>>))

\* the new content of assignments.json
addAssignment(store, assignment) ==
    LET assignments == readJsonArray(store.assignments) IN
    IF assignments.threw THEN Thrown
    ELSE Ok(writeJsonArray(Append(assignments.value, assignment)))

FirstAssignment(assignments, employeeId, shiftId) ==
    First(assignments, {i \in DOMAIN assignments :
                            /\ assignments[i].employeeId = employeeId
                            /\ assignments[i].shiftId = shiftId})

\* findAssignment with the two ids passed the wrong way round
findAssignmentSwapped(store, employeeId, shiftId) ==
    LET assignments == readJsonArray(store.assignments) IN
    IF assignments.threw THEN Thrown
    ELSE Ok(FirstAssignment(assignments.value, shiftId, employeeId))

findAssignment(store, employeeId, shiftId) ==
    LET assignments == readJsonArray(store.assignments) IN
    IF assignments.threw THEN Thrown
    ELSE Ok(FirstAssignment(assignments.value, employeeId, shiftId))

FilterByEmployee(assignments, employeeId) ==
    SelectSeq(assignments, LAMBDA a : a.employeeId = employeeId)

\* getAssignmentsByEmployee without the employee test
getAssignmentsByAnyEmployee(store, employeeId) == readJsonArray(store.assignments)

getAssignmentsByEmployee(store, employeeId) ==
    LET assignments == readJsonArray(store.assignments) IN
    IF assignments.threw THEN Thrown
    ELSE Ok(FilterByEmployee(assignments.value, employeeId))

(***************************************************************************)
(* Schedule ordering.                                                      *)
(***************************************************************************)
\* the key with its two parts the wrong way round
ShiftKeyTimeFirst(row) == row.startTime \o row.date

\* rows[j].date + rows[j].startTime
ShiftKey(row) == row.date \o row.startTime

\* one run of the inner loop of sortShifts, from index j on (1-based)
RECURSIVE SortInner(_, _)
SortInner(rows, j) ==
    IF j > Len(rows) - 1 THEN rows
    ELSE IF GreaterStr(ShiftKey(rows[j]), ShiftKey(rows[j + 1]))
         THEN SortInner([rows EXCEPT ![j] = rows[j + 1], ![j + 1] = rows[j]], j + 1)
    ELSE SortInner(rows, j + 1)

\* the outer loop of sortShifts, from pass i on (1-based)
RECURSIVE SortOuter(_, _)
SortOuter(rows, i) ==
    IF i > Len(rows) THEN rows ELSE SortOuter(SortInner(rows, 1), i + 1)

\* sortShifts without its outer loop
sortShiftsOnePass(rows) == SortInner(rows, 1)

sortShifts(rows) == SortOuter(rows, 1)

(***************************************************************************)
(* Business layer. An operation yields its result and the store it leaves. *)
(***************************************************************************)
Result(ok, message, rows) ==
    [threw |-> FALSE, ok |-> ok, message |-> message, rows |-> rows]
Exception == [threw |-> TRUE, ok |-> FALSE, message |-> "", rows |-> <<>>]

Outcome(res, store) == [res |-> res, store |-> store]

\* addNewEmployee that tests the untrimmed arguments
addNewEmployeeUntrimmed(store, name, phone) ==
    LET n == TrimArg(name)
        p == TrimArg(phone)
    IN
    IF Falsy(name) \/ Falsy(phone)
    THEN Outcome(Result(FALSE, "Invalid input.", <<>>), store)
    ELSE LET employees == getAllEmployees(store) IN
         IF employees.threw THEN Outcome(Exception, store)
         ELSE LET employee == [employeeId |-> Str(getNextEmployeeId(employees.value)),
                               name |-> n, phone |-> p]
                  written == addEmployee(store, employee)
              IN
              IF written.threw THEN Outcome(Exception, store)
              ELSE Outcome(Result(TRUE, "Employee added...", <<>>),
                           [store EXCEPT !.employees = written.value])

addNewEmployee(store, name, phone) ==
    LET n == TrimArg(name)
        p == TrimArg(phone)
    IN
    IF n = <<>> \/ p = <<>> THEN Outcome(Result(FALSE, "Invalid input.", <<>>), store)
    ELSE LET employees == getAllEmployees(store) IN
         IF employees.threw THEN Outcome(Exception, store)
         ELSE LET employee == [employeeId |-> Str(getNextEmployeeId(employees.value)),
                               name |-> n, phone |-> p]
                  written == addEmployee(store, employee)
              IN
              IF written.threw THEN Outcome(Exception, store)
              ELSE Outcome(Result(TRUE, "Employee added...", <<>>),
                           [store EXCEPT !.employees = written.value])

\* the checks of assignEmployeeToShift after the input check, in the order
\* given: "employee", "shift", "duplicate"
RECURSIVE AssignChecks(_, _, _, _)
AssignChecks(store, empId, shId, order) ==
    IF order = <<>>
    THEN LET written == addAssignment(store, [employeeId |-> empId, shiftId |-> shId]) IN
         IF written.threw THEN Outcome(Exception, store)
         ELSE Outcome(Result(TRUE, "Shift Recorded", <<>>),
                      [store EXCEPT !.assignments = written.value])
    ELSE LET found == CASE Head(order) = "employee" -> findEmployee(store, empId)
                        [] Head(order) = "shift" -> findShift(store, shId)
                        [] Head(order) = "duplicate" -> findAssignment(store, empId, shId)
             message == CASE Head(order) = "employee" -> "Employee does not exist"
                          [] Head(order) = "shift" -> "Shift does not exist"
                          [] Head(order) = "duplicate" -> "Employee already assigned to shift"
         IN
         IF found.threw THEN Outcome(Exception, store)
         ELSE IF found.value.found = (Head(order) = "duplicate")
         THEN Outcome(Result(FALSE, message, <<>>), store)
         ELSE AssignChecks(store, empId, shId, Tail(order))

\* assignEmployeeToShift that looks for the duplicate before the shift
assignDuplicateFirst(store, employeeId, shiftId) ==
    LET empId == TrimArg(employeeId)
        shId == TrimArg(shiftId)
    IN
    IF empId = <<>> \/ shId = <<>>
    THEN Outcome(Result(FALSE, "Invalid input.", <<>>), store)
    ELSE AssignChecks(store, empId, shId, <<"employee", "duplicate", "shift">>)

\* assignEmployeeToShift that looks for the shift before the employee
assignShiftFirst(store, employeeId, shiftId) ==
    LET empId == TrimArg(employeeId)
        shId == TrimArg(shiftId)
    IN
    IF empId = <<>> \/ shId = <<>>
    THEN Outcome(Result(FALSE, "Invalid input.", <<>>), store)
    ELSE AssignChecks(store, empId, shId, <<"shift", "employee", "duplicate">>)

assignEmployeeToShift(store, employeeId, shiftId) ==
    LET empId == TrimArg(employeeId)
        shId == TrimArg(shiftId)
    IN
    IF empId = <<>> \/ shId = <<>>
    THEN Outcome(Result(FALSE, "Invalid input.", <<>>), store)
    ELSE LET employee == findEmployee(store, empId) IN
    IF employee.threw THEN Outcome(Exception, store)
    ELSE IF ~employee.value.found
    THEN Outcome(Result(FALSE, "Employee does not exist", <<>>), store)
    ELSE LET shift == findShift(store, shId) IN
    IF shift.threw THEN Outcome(Exception, store)
    ELSE IF ~shift.value.found
    THEN Outcome(Result(FALSE, "Shift does not exist", <<>>), store)
    ELSE LET existing == findAssignment(store, empId, shId) IN
    IF existing.threw THEN Outcome(Exception, store)
    ELSE IF existing.value.found
    THEN Outcome(Result(FALSE, "Employee already assigned to shift", <<>>), store)
    ELSE LET written == addAssignment(store, [employeeId |-> empId, shiftId |-> shId]) IN
    IF written.threw THEN Outcome(Exception, store)
    ELSE Outcome(Result(TRUE, "Shift Recorded", <<>>),
                 [store EXCEPT !.assignments = written.value])

\* the for loop of getEmployeeSchedule, from index i on
RECURSIVE ResolveShifts(_, _, _)
ResolveShifts(store, assignments, i) ==
    IF i > Len(assignments) THEN Ok(<<>>)
    ELSE LET shift == findShift(store, assignments[i].shiftId) IN
         IF shift.threw THEN Thrown
         ELSE LET rest == ResolveShifts(store, assignments, i + 1) IN
              IF rest.threw THEN Thrown
              ELSE Ok((IF shift.value.found THEN <<shift.value.item>> ELSE <<>>)
                      \o rest.value)

getEmployeeSchedule(store, employeeId) ==
    LET empId == TrimArg(employeeId)
        employee == findEmployee(store, empId)
    IN
    IF employee.threw THEN Outcome(Exception, store)
    ELSE IF ~employee.value.found THEN Outcome(Result(FALSE, "", <<>>), store)
    ELSE LET assignments == getAssignmentsByEmployee(store, empId) IN
    IF assignments.threw THEN Outcome(Exception, store)
    ELSE LET rows == ResolveShifts(store, assignments.value, 1) IN
    IF rows.threw THEN Outcome(Exception, store)
    ELSE Outcome(Result(TRUE, "", sortShifts(rows.value)), store)

(***************************************************************************)
(* The assign option of the two programs. prompt() returns the typed line; *)
(* what is printed and the store that is left.                             *)
(***************************************************************************)
Printed(message, store) == [printed |-> message, store |-> store]

\* presentation.js
assignEmployeeMenu(store, typedEmployeeId, typedShiftId) ==
    LET employeeId == Str(Trim(typedEmployeeId))
        shiftId == Str(Trim(typedShiftId))
        outcome == assignEmployeeToShift(store, employeeId, shiftId)
    IN Printed(outcome.res.message, outcome.store)

\* assignment1.js
employeeExists(employees, employeeId) ==
    \E i \in DOMAIN employees : StrictEq(employees[i].employeeId, employeeId)

shiftExists(shifts, shiftId) ==
    \E i \in DOMAIN shifts : shifts[i].shiftId = shiftId

isAlreadyAssigned(assignments, employeeId, shiftId) ==
    \E i \in DOMAIN assignments :
        /\ assignments[i].employeeId = employeeId
        /\ assignments[i].shiftId = shiftId

assignEmployeeToShiftA1(store, typedEmployeeId, typedShiftId) ==
    LET employeeId == Trim(typedEmployeeId)
        shiftId == Trim(typedShiftId)
        employees == readJsonArray(store.employees).value
        shifts == readJsonArray(store.shifts).value
        assignments == readJsonArray(store.assignments).value
    IN
    IF ~employeeExists(employees, employeeId)
    THEN Printed("Employee does not exist", store)
    ELSE IF ~shiftExists(shifts, shiftId)
    THEN Printed("Shift does not exist", store)
    ELSE IF isAlreadyAssigned(assignments, employeeId, shiftId)
    THEN Printed("Employee already assigned to shift", store)
    ELSE Printed("Shift Recorded",
                 [store EXCEPT !.assignments =
                     writeJsonArray(Append(assignments,
                         [employeeId |-> employeeId, shiftId |-> shiftId]))])

(***************************************************************************)
(* State.                                                                  *)
(***************************************************************************)
VARIABLES
    employeesFile,    \* employees.json
    shiftsFile,       \* shifts.json
    assignmentsFile,  \* assignments.json
    result,           \* the last call: operation, arguments, what it returned
    pre,              \* the store the last call started from
    input,            \* argument of the last pure-function application
    output            \* values the pure function returned

vars == <<employeesFile, shiftsFile, assignmentsFile, result, pre, input, output>>

Store == [employees |-> employeesFile, shifts |-> shiftsFile,
          assignments |-> assignmentsFile]

\* what a file reads as
Read(file) == readJsonArray(file).value

(***************************************************************************)
(* Data the behaviours start from and the arguments the calls draw.        *)
(***************************************************************************)
E001 == <<"E", "0", "0", "1">>
E002 == <<"E", "0", "0", "2">>
E009 == <<"E", "0", "0", "9">>
S1 == <<"S", "1">>
S2 == <<"S", "2">>
S3 == <<"S", "3">>
S9 == <<"S", "9">>

January(d1, d2) == <<"2", "0", "2", "4", "-", "0", "1", "-", d1, d2>>
Clock(h1, h2) == <<h1, h2, ":", "0", "0">>

Shift(id, date, startTime, endTime) ==
    [shiftId |-> id, date |-> date, startTime |-> startTime, endTime |-> endTime]

ExampleShifts ==
    << Shift(S1, January("0", "2"), Clock("0", "8"), Clock("1", "6")),
       Shift(S2, January("0", "1"), Clock("0", "9"), Clock("1", "7")),
       Shift(S3, January("0", "1"), Clock("0", "8"), Clock("1", "6")) >>

Assignment(e, s) == [employeeId |-> e, shiftId |-> s]

StoredEmployee == [employeeId |-> Str(E001), name |-> <<"a">>, phone |-> <<"5">>]

\* employees.json starts empty or unreadable; shifts.json is written by
\* somebody else; assignments.json holds no pair twice.
InitialStores ==
    { [employees |-> ArrayFile(<<>>), shifts |-> ArrayFile(ExampleShifts),
       assignments |-> ArrayFile(<<>>)],
      [employees |-> ArrayFile(<<>>), shifts |-> ArrayFile(ExampleShifts),
       assignments |-> ArrayFile(<<Assignment(E001, S9), Assignment(E002, S1)>>)],
      [employees |-> MissingFile, shifts |-> ArrayFile(ExampleShifts),
       assignments |-> InvalidFile],
      [employees |-> ObjectFile(<<StoredEmployee>>), shifts |-> ObjectFile(ExampleShifts),
       assignments |-> ObjectFile(<<Assignment(E001, S1)>>)],
      [employees |-> InvalidFile, shifts |-> MissingFile,
       assignments |-> MissingFile] }

NameArgs == {Str(<<" ", "a", " ">>), Str(<<" ">>), Undefined}
PhoneArgs == {Str(<<"5">>), Str(<<>>)}
EmployeeIdArgs == {Str(E001), Str(<<" ">> \o E002 \o <<" ">>), Str(E009), Str(<<" ">>), Undefined}
ShiftIdArgs == {Str(S1), Str(<<" ">> \o S2 \o <<" ">>), Str(S3), Str(S9), Str(<<>>), Undefined}

Call(op, arg1, arg2, res) ==
    [op |-> op, arg1 |-> arg1, arg2 |-> arg2, threw |-> res.threw, ok |-> res.ok,
     message |-> res.message, rows |-> res.rows]

NoCall == Call("none", Undefined, Undefined, Result(FALSE, "", <<>>))

Init ==
    /\ \E s \in InitialStores :
          /\ employeesFile = s.employees
          /\ shiftsFile = s.shifts
          /\ assignmentsFile = s.assignments
          /\ pre = s
    /\ result = NoCall
    /\ input = <<>>
    /\ output = <<>>

\* the store an operation leaves and what it returned
Commit(op, arg1, arg2, outcome) ==
    /\ employeesFile' = outcome.store.employees
    /\ shiftsFile' = outcome.store.shifts
    /\ assignmentsFile' = outcome.store.assignments
    /\ result' = Call(op, arg1, arg2, outcome.res)
    /\ pre' = Store
    /\ UNCHANGED <<input, output>>

AddNewEmployee ==
    \E name \in NameArgs, phone \in PhoneArgs :
        LET outcome == addNewEmployee(Store, name, phone) IN
        /\ outcome.res.ok => Len(Read(employeesFile)) < MaxEmployees
        /\ Commit("addNewEmployee", name, phone, outcome)

AssignEmployeeToShift ==
    \E employeeId \in EmployeeIdArgs, shiftId \in ShiftIdArgs :
        LET outcome == assignEmployeeToShift(Store, employeeId, shiftId) IN
        /\ outcome.res.ok => Len(Read(assignmentsFile)) < MaxAssignments
        /\ Commit("assignEmployeeToShift", employeeId, shiftId, outcome)

GetEmployeeSchedule ==
    \E employeeId \in EmployeeIdArgs :
        Commit("getEmployeeSchedule", employeeId, Undefined,
               getEmployeeSchedule(Store, employeeId))

Next == AddNewEmployee \/ AssignEmployeeToShift \/ GetEmployeeSchedule

Spec == Init /\ [][Next]_vars

(***************************************************************************)
(* Long registration runs. The store starts empty, or as RegisterStart     *)
(* successful registrations leave it, and employees are added one after    *)
(* the other with failed adds, assign and schedule calls in between.       *)
(***************************************************************************)
\* employees.json after n registrations of the same person from empty
Registered(n) ==
    [k \in 1..n |-> [employeeId |-> Str(FormatEmployeeId(k - 1)),
                     name |-> <<"a">>, phone |-> <<"5">>]]

RegisterStore(n) ==
    [employees |-> ArrayFile(Registered(n)), shifts |-> ArrayFile(ExampleShifts),
     assignments |-> ArrayFile(<<>>)]

InitRegister ==
    /\ \E n \in {0, RegisterStart} :
          /\ employeesFile = RegisterStore(n).employees
          /\ shiftsFile = RegisterStore(n).shifts
          /\ assignmentsFile = RegisterStore(n).assignments
          /\ pre = RegisterStore(n)
    /\ result = NoCall
    /\ input = <<>>
    /\ output = <<>>

RegisterAdd ==
    \E name \in {Str(<<"a">>), Str(<<" ">>)} :
        LET outcome == addNewEmployee(Store, name, Str(<<"5">>))
            n == Len(Read(employeesFile))
        IN
        /\ outcome.res.ok => \/ n < MaxEmployees
                             \/ n >= RegisterStart /\ n < MaxRegister
        /\ Commit("addNewEmployee", name, Str(<<"5">>), outcome)

RegisterAssign ==
    \E employeeId \in {Str(E001), Str(<<" ">>)}, shiftId \in {Str(S1), Str(S2), Str(S9)} :
        LET outcome == assignEmployeeToShift(Store, employeeId, shiftId) IN
        /\ outcome.res.ok => Len(Read(assignmentsFile)) < MaxAssignments - 1
        /\ Commit("assignEmployeeToShift", employeeId, shiftId, outcome)

RegisterSchedule ==
    Commit("getEmployeeSchedule", Str(E001), Undefined,
           getEmployeeSchedule(Store, Str(E001)))

NextRegister == RegisterAdd \/ RegisterAssign \/ RegisterSchedule

SpecRegister == InitRegister /\ [][NextRegister]_vars

(***************************************************************************)
(* The pure functions, applied to inputs drawn from bounded sets.          *)
(***************************************************************************)
NoOutput == [fn |-> "none", threw |-> FALSE, value |-> <<>>]

PureInit(inputs) ==
    /\ input \in inputs
    /\ output = NoOutput
    /\ employeesFile = MissingFile
    /\ shiftsFile = MissingFile
    /\ assignmentsFile = MissingFile
    /\ pre = [employees |-> MissingFile, shifts |-> MissingFile,
              assignments |-> MissingFile]
    /\ result = NoCall

Apply(fn, outcome) ==
    /\ output' = [fn |-> fn, threw |-> outcome.threw, value |-> outcome.value]
    /\ UNCHANGED <<employeesFile, shiftsFile, assignmentsFile, result, pre, input>>

\* all sequences over S of length at most n
RECURSIVE SeqsUpTo(_, _)
SeqsUpTo(S, n) ==
    IF n = 0 THEN {<<>>}
    ELSE LET shorter == SeqsUpTo(S, n - 1) IN
         shorter \cup {Append(s, x) : s \in shorter, x \in S}

\* employeeId values found in employees.json: well-formed, with letters in
\* the number, empty, and values that are no strings
IdValues ==
    {Str(<<"E">> \o s) : s \in SeqsUpTo({"0", "1", "Z"}, MaxSuffix)}
        \cup {Str(<<>>), Num(7), Num(17), Undefined}

InitIds == PureInit(SeqsUpTo({[employeeId |-> v] : v \in IdValues}, MaxIds))

NextIdBusiness == Apply("business.getNextEmployeeId", Ok(getNextEmployeeId(input)))

NextIdAssignment1 == Apply("assignment1.getNextEmployeeId", getNextEmployeeIdA1(input))

NextIds == NextIdBusiness \/ NextIdAssignment1

SpecIds == InitIds /\ [][NextIds]_vars

\* short dates and times: one may be a prefix of another, and two different
\* (date, startTime) pairs may concatenate to the same key
SortRows ==
    {Shift(id, date, startTime, <<"2">>) :
        id \in {S1, S2},
        date \in {<<"1">>, <<"1", "1">>, <<"2">>},
        startTime \in {<<"1">>, <<"1", "1">>, <<"2">>}}

InitSort == PureInit(SeqsUpTo(SortRows, MaxRows) \cup {ExampleShifts})

SortShifts == Apply("sortShifts", Ok(sortShifts(input)))

NextSort == SortShifts

SpecSort == InitSort /\ [][NextSort]_vars

(***************************************************************************)
(* Shift duration.                                                         *)
(***************************************************************************)
\* String.prototype.split(":")
RECURSIVE SplitColon(_, _)
SplitColon(s, part) ==
    IF s = <<>> THEN <<part>>
    ELSE IF Head(s) = ":" THEN <<part>> \o SplitColon(Tail(s), <<>>)
    ELSE SplitColon(Tail(s), Append(part, Head(s)))

\* a number of hours as a fraction: diffMinutes / 60
Hours(minutes) == [num |-> minutes, den |-> 60]
ZeroHours == [num |-> 0, den |-> 1]

\* business.js computeShiftDuration. Number() of a component is never
\* negative here: the strings hold no sign.
computeShiftDuration(startTime, endTime) ==
    LET s == TrimArg(startTime)
        e == TrimArg(endTime)
        sParts == SplitColon(s, <<>>)
        eParts == SplitColon(e, <<>>)
    IN
    IF Len(sParts) # 2 \/ Len(eParts) # 2 THEN ZeroHours
    ELSE LET sh == ToNumber(sParts[1])
             sm == ToNumber(sParts[2])
             eh == ToNumber(eParts[1])
             em == ToNumber(eParts[2])
         IN
         IF sh.nan \/ sm.nan \/ eh.nan \/ em.nan THEN ZeroHours
         ELSE IF \/ sh.val < 0 \/ sh.val > 23 \/ eh.val < 0 \/ eh.val > 23
                 \/ sm.val < 0 \/ sm.val > 59 \/ em.val < 0 \/ em.val > 59
         THEN ZeroHours
         ELSE LET startMinutes == sh.val * 60 + sm.val
                  endMinutes == eh.val * 60 + em.val
                  rolled == IF endMinutes < startMinutes THEN endMinutes + 24 * 60
                            ELSE endMinutes
              IN Hours(rolled - startMinutes)

\* times of day as they are typed: hours and minutes in and out of range,
\* a component left empty or blank, letters, one part and three parts
HourTexts == {<<"0">>, <<"0", "1">>, <<"1", "1">>, <<"1", "3">>, <<"2", "3">>,
              <<"2", "5">>, <<>>, <<" ">>, <<"b", "a", "d">>}
MinuteTexts == {<<"0", "0">>, <<"3", "0">>, <<"5", "9">>, <<"6", "0">>, <<>>, <<"Z">>}

TimeArgs ==
    {Str(h \o <<":">> \o m) : h \in HourTexts, m \in MinuteTexts}
        \cup {Str(<<"b", "a", "d">>), Str(<<"1", "1">>), Str(<<>>), Undefined,
              Str(<<"1", "1", ":", "0", "0", ":", "0", "0">>),
              Str(<<" ", "1", "1", ":", "0", "0", " ">>)}

InitDuration == PureInit(TimeArgs \X TimeArgs)

ComputeShiftDuration ==
    Apply("computeShiftDuration", Ok(computeShiftDuration(input[1], input[2])))

NextDuration == ComputeShiftDuration

SpecDuration == InitDuration /\ [][NextDuration]_vars

(***************************************************************************)
(* The store with shifts.json under the hand of its owner: the engine only *)
(* reads the file, the collaborator who keeps it may take a shift out      *)
(* between two calls. Nothing is on file at the start, so that every       *)
(* employee and every assignment on file was written by a successful call. *)
(***************************************************************************)
RemovableShifts == {S1}

InitShifts ==
    /\ Init
    /\ Read(employeesFile) = <<>>
    /\ Read(assignmentsFile) = <<>>

RemoveShift ==
    \E shiftId \in RemovableShifts :
        /\ shiftsFile.kind = "array"
        /\ \E k \in DOMAIN Read(shiftsFile) : Read(shiftsFile)[k].shiftId = shiftId
        /\ shiftsFile' = ArrayFile(SelectSeq(Read(shiftsFile),
                                             LAMBDA shift : shift.shiftId # shiftId))
        /\ result' = Call("removeShift", Str(shiftId), Undefined, Result(TRUE, "", <<>>))
        /\ pre' = Store
        /\ UNCHANGED <<employeesFile, assignmentsFile, input, output>>

NextShifts == AddNewEmployee \/ AssignEmployeeToShift \/ GetEmployeeSchedule \/ RemoveShift

SpecShifts == InitShifts /\ [][NextShifts]_vars

(***************************************************************************)
(* The two programs side by side on the same employees.json and            *)
(* shifts.json, each with its own assignments.json, given the same typed   *)
(* lines. The layered program has the store variables; output holds what   *)
(* assignment1.js printed and the assignments.json it has.                 *)
(***************************************************************************)
TypedEmployeeIds == {E001, <<" ">> \o E002 \o <<" ">>, E009, <<>>, <<" ">>}
TypedShiftIds == {S1, <<" ">> \o S2 \o <<" ">>, S9, <<>>, <<" ">>}

SideBySideStores ==
    [employees : {ArrayFile(Registered(2)), MissingFile},
     shifts : {ArrayFile(ExampleShifts)},
     assignments : {ArrayFile(<<>>), InvalidFile, ArrayFile(<<Assignment(E001, S9)>>)}]

InitSideBySide ==
    /\ \E s \in SideBySideStores :
          /\ employeesFile = s.employees
          /\ shiftsFile = s.shifts
          /\ assignmentsFile = s.assignments
          /\ pre = s
          /\ output = [fn |-> "none", threw |-> FALSE,
                       value |-> Printed("", s)]
    /\ result = NoCall
    /\ input = <<>>

AssignSideBySide ==
    \E typedEmployeeId \in TypedEmployeeIds, typedShiftId \in TypedShiftIds :
        LET layered == assignEmployeeMenu(Store, typedEmployeeId, typedShiftId)
            monolithic == assignEmployeeToShiftA1(output.value.store,
                                                  typedEmployeeId, typedShiftId)
        IN
        /\ layered.store # Store => Len(Read(assignmentsFile)) < MaxAssignments
        /\ monolithic.store # output.value.store =>
              Len(Read(output.value.store.assignments)) < MaxAssignments
        /\ input' = <<typedEmployeeId, typedShiftId>>
        /\ employeesFile' = layered.store.employees
        /\ shiftsFile' = layered.store.shifts
        /\ assignmentsFile' = layered.store.assignments
        /\ result' = Call("assignEmployeeMenu", Str(typedEmployeeId), Str(typedShiftId),
                          Result(layered.store # Store, layered.printed, <<>>))
        /\ pre' = Store
        /\ output' = [fn |-> "assignEmployeeToShift", threw |-> FALSE,
                      value |-> monolithic]

NextSideBySide == AssignSideBySide

SpecSideBySide == InitSideBySide /\ [][NextSideBySide]_vars

(***************************************************************************)
(* Properties.                                                             *)
(***************************************************************************)
Employees(st) == Read(st.employees)
Shifts(st) == Read(st.shifts)
Assignments(st) == Read(st.assignments)

EmployeeStored(st, id) ==
    \E k \in DOMAIN Employees(st) : Employees(st)[k].employeeId = Str(id)
ShiftStored(st, id) ==
    \E k \in DOMAIN Shifts(st) : Shifts(st)[k].shiftId = id
\* the places of the pair (e, s) in assignments.json
Places(st, e, s) ==
    {k \in DOMAIN Assignments(st) : Assignments(st)[k] = Assignment(e, s)}

Unchanged == Store = pre
IsCall(op) == result.op = op
Says(ok, message) == ~result.threw /\ result.ok = ok /\ result.message = message

\* C1: after any sequence of addNewEmployee, assignEmployeeToShift and
\* getEmployeeSchedule calls from a store without a duplicate pair, no
\* (employeeId, shiftId) pair is recorded twice; the second
\* assignEmployeeToShift(e, s) is refused and leaves exactly one record of
\* (e, s).
C1_OneAssignmentPerPair ==
    /\ \A i, j \in DOMAIN Assignments(Store) :
          Assignments(Store)[i] = Assignments(Store)[j] => i = j
    /\ IsCall("assignEmployeeToShift")
         /\ Places(pre, TrimArg(result.arg1), TrimArg(result.arg2)) # {}
         /\ EmployeeStored(pre, TrimArg(result.arg1))
         /\ ShiftStored(pre, TrimArg(result.arg2))
       => /\ Says(FALSE, "Employee already assigned to shift")
          /\ Cardinality(Places(Store, TrimArg(result.arg1), TrimArg(result.arg2))) = 1

\* the pair (E001, S1) was recorded by a first call and asked for again
C1_Witness ==
    /\ IsCall("assignEmployeeToShift")
    /\ TrimArg(result.arg1) = E001 /\ TrimArg(result.arg2) = S1
    /\ Says(FALSE, "Employee already assigned to shift")
    /\ Places(Store, E001, S1) # {}

\* the answer the validation order prescribes on store st
FirstFailingCheck(st, employeeId, shiftId) ==
    LET e == TrimArg(employeeId)
        s == TrimArg(shiftId)
    IN
    IF e = <<>> \/ s = <<>> THEN <<FALSE, "Invalid input.">>
    ELSE IF ~EmployeeStored(st, e) THEN <<FALSE, "Employee does not exist">>
    ELSE IF ~ShiftStored(st, s) THEN <<FALSE, "Shift does not exist">>
    ELSE IF Places(st, e, s) # {} THEN <<FALSE, "Employee already assigned to shift">>
    ELSE <<TRUE, "Shift Recorded">>

\* C2: assignEmployeeToShift answers with the first failing check in the
\* order empty id, unknown employee, unknown shift, duplicate pair, and
\* with "Shift Recorded" exactly when no check fails.
C2_ValidationOrder ==
    IsCall("assignEmployeeToShift") =>
        LET expected == FirstFailingCheck(pre, result.arg1, result.arg2) IN
        Says(expected[1], expected[2])

\* the shift is unknown and the pair is on file: checks 3 and 4 both fail
C2_Witness ==
    /\ IsCall("assignEmployeeToShift")
    /\ EmployeeStored(pre, TrimArg(result.arg1))
    /\ ~ShiftStored(pre, TrimArg(result.arg2))
    /\ Places(pre, TrimArg(result.arg1), TrimArg(result.arg2)) # {}
    /\ Says(FALSE, "Shift does not exist")

\* C3 as stated: an employeeId that matches no stored employee is answered
\* "Employee does not exist" whatever the shiftId is, an empty or
\* whitespace-only one included.
C3_AnyShiftId ==
    IsCall("assignEmployeeToShift") /\ ~EmployeeStored(pre, TrimArg(result.arg1))
        => Says(FALSE, "Employee does not exist")

\* C3 amended: a non-empty employeeId that matches no stored employee is
\* answered "Employee does not exist" for every shiftId that is not empty
\* after trimming, stored or not; when the trimmed shiftId (or the trimmed
\* employeeId) is empty the answer is "Invalid input.".
C3_NonEmptyShiftId ==
    IsCall("assignEmployeeToShift") /\ ~EmployeeStored(pre, TrimArg(result.arg1))
        => IF TrimArg(result.arg1) # <<>> /\ TrimArg(result.arg2) # <<>>
           THEN Says(FALSE, "Employee does not exist")
           ELSE Says(FALSE, "Invalid input.")

\* an unknown employee is assigned to a stored shift
C3_Witness ==
    /\ IsCall("assignEmployeeToShift")
    /\ TrimArg(result.arg1) = E009
    /\ TrimArg(result.arg2) = S1
    /\ ShiftStored(pre, S1)
    /\ Says(FALSE, "Employee does not exist")

\* the k-th stored employee carries the number k behind an "E"
NumberedDensely(employees) ==
    \A k \in DOMAIN employees :
        LET id == employees[k].employeeId IN
        /\ id.t = "string" /\ Len(id.s) >= 2 /\ Head(id.s) = "E"
        /\ AllDigits(Tail(id.s))
        /\ DigitsValue(Tail(id.s), 0) = k

PairwiseDistinct(employees) ==
    \A i, j \in DOMAIN employees :
        employees[i].employeeId = employees[j].employeeId => i = j

\* C4 as stated: from an empty employees collection the stored ids are
\* pairwise distinct and dense, the k-th being "E" and k zero-padded to
\* exactly 3 digits, however many employees were added.
C4_ExactlyThreeDigits ==
    /\ PairwiseDistinct(Employees(Store))
    /\ NumberedDensely(Employees(Store))
    /\ \A k \in DOMAIN Employees(Store) : Len(Employees(Store)[k].employeeId.s) = 4

\* C4 amended: the ids are pairwise distinct and dense, the k-th being "E"
\* and k zero-padded to at least 3 digits: exactly 3 digits up to E999,
\* the plain decimal number (E1000, E1001, ...) from the 1000th on.
C4_AtLeastThreeDigits ==
    /\ PairwiseDistinct(Employees(Store))
    /\ NumberedDensely(Employees(Store))
    /\ \A k \in DOMAIN Employees(Store) :
          LET digits == Tail(Employees(Store)[k].employeeId.s) IN
          IF k <= 999 THEN Len(digits) = 3
          ELSE Len(digits) > 3 /\ Head(digits) # "0"

\* the 1000th employee has just been added
C4_Witness ==
    /\ IsCall("addNewEmployee") /\ Says(TRUE, "Employee added...")
    /\ Len(Employees(Store)) = 1000
    /\ Len(Employees(pre)) = 999

\* the number an employeeId stands for: the digits behind its first
\* character, and 0 for an id that is malformed
ClaimedSuffix(id) ==
    IF id.t = "string" /\ Len(id.s) >= 2 /\ AllDigits(Tail(id.s))
    THEN DigitsValue(Tail(id.s), 0) ELSE 0

\* C5: in every variant, getNextEmployeeId(L) does not throw and returns
\* "E" and m+1 zero-padded to 3 digits, m the greatest numeric suffix in L
\* with a malformed employeeId counting 0; the number returned is greater
\* than every numeric suffix in L, and on the empty list it is E001.
C5_NextEmployeeId ==
    output.fn \in {"business.getNextEmployeeId", "assignment1.getNextEmployeeId"} =>
        LET m == Max({0} \cup {ClaimedSuffix(input[k].employeeId) : k \in DOMAIN input}) IN
        /\ ~output.threw
        /\ output.value = <<"E">> \o PadStart(NatToString(m + 1), 3)
        /\ \A k \in DOMAIN input :
              DigitsValue(Tail(output.value), 0) > ClaimedSuffix(input[k].employeeId)
        /\ input = <<>> => output.value = E001

\* C6: addNewEmployee answers "Invalid input." and writes nothing when the
\* trimmed name or the trimmed phone is empty (empty, whitespace-only or
\* missing); otherwise it succeeds with "Employee added...", also when the
\* same name and phone are already stored.
C6_AddValidation ==
    IsCall("addNewEmployee") =>
        IF TrimArg(result.arg1) = <<>> \/ TrimArg(result.arg2) = <<>>
        THEN Says(FALSE, "Invalid input.") /\ Unchanged
        ELSE /\ Says(TRUE, "Employee added...")
             /\ Len(Employees(Store)) = Len(Employees(pre)) + 1

\* a whitespace-only name is refused while the store holds two employees
\* with the same name and phone
C6_Witness ==
    /\ IsCall("addNewEmployee")
    /\ result.arg1 = Str(<<" ">>)
    /\ Says(FALSE, "Invalid input.")
    /\ Len(Employees(Store)) = 2
    /\ Employees(Store)[1].name = Employees(Store)[2].name
    /\ Employees(Store)[1].phone = Employees(Store)[2].phone

\* how often x occurs in the sequence s
Count(s, x) == Cardinality({k \in DOMAIN s : s[k] = x})

\* C7: getEmployeeSchedule returns ok:false without rows when no stored
\* employee has the id (the id as the function trims it); otherwise ok:true
\* and exactly one shift record per stored Assignment of that employee
\* whose shiftId is a stored shift: an Assignment of a missing shift and
\* the assignments of other employees give no row, and nothing is written.
C7_ScheduleRows ==
    IsCall("getEmployeeSchedule") =>
        LET e == TrimArg(result.arg1) IN
        /\ ~result.threw
        /\ Unchanged
        /\ IF ~EmployeeStored(pre, e) THEN ~result.ok /\ result.rows = <<>>
           ELSE /\ result.ok
                /\ \A k \in DOMAIN result.rows :
                      \E i \in DOMAIN Shifts(pre) : result.rows[k] = Shifts(pre)[i]
                /\ \A i \in DOMAIN Shifts(pre) :
                      Count(result.rows, Shifts(pre)[i])
                          = Cardinality(Places(pre, e, Shifts(pre)[i].shiftId))

\* the employee has an assignment of a missing shift and one of a stored
\* shift, and another employee has an assignment too
C7_Witness ==
    /\ IsCall("getEmployeeSchedule")
    /\ result.ok /\ Len(result.rows) = 1
    /\ \E k \in DOMAIN Assignments(pre) :
          /\ Assignments(pre)[k].employeeId = TrimArg(result.arg1)
          /\ ~ShiftStored(pre, Assignments(pre)[k].shiftId)
    /\ \E k \in DOMAIN Assignments(pre) :
          /\ Assignments(pre)[k].employeeId # TrimArg(result.arg1)
          /\ ShiftStored(pre, Assignments(pre)[k].shiftId)

\* the rows of s whose key is key, in the order of s
WithKey(s, key) == SelectSeq(s, LAMBDA row : ShiftKey(row) = key)

\* C8: sortShifts terminates and leaves a permutation of its input in
\* ascending order of the key date+startTime, rows of equal keys in their
\* input order.
C8_SortedStable ==
    output.fn = "sortShifts" =>
        LET sorted == output.value IN
        /\ Len(sorted) = Len(input)
        /\ \A k \in DOMAIN input : Count(sorted, input[k]) = Count(input, input[k])
        /\ \A k \in 1..(Len(sorted) - 1) :
              ~GreaterStr(ShiftKey(sorted[k]), ShiftKey(sorted[k + 1]))
        /\ \A k \in DOMAIN input :
              WithKey(sorted, ShiftKey(input[k])) = WithKey(input, ShiftKey(input[k]))
        /\ input = ExampleShifts =>
              sorted = <<ExampleShifts[3], ExampleShifts[2], ExampleShifts[1]>>

\* two different rows of one key, in front of a row of a smaller key
C8_Witness ==
    /\ output.fn = "sortShifts"
    /\ Len(input) = 3
    /\ input[1] # input[2]
    /\ ShiftKey(input[1]) = ShiftKey(input[2])
    /\ GreaterStr(ShiftKey(input[2]), ShiftKey(input[3]))
    /\ output.value = <<input[3], input[1], input[2]>>

\* a before b by date, then by startTime, both as raw strings
DateThenTime(a, b) ==
    \/ LessStr(a.date, b.date)
    \/ a.date = b.date /\ LessStr(a.startTime, b.startTime)

ProperPrefix(s, u) == Len(s) < Len(u) /\ SubSeq(u, 1, Len(s)) = s

\* C9 as stated: comparing date+startTime is comparing by date, then by
\* startTime, for all strings, dates of different lengths included.
C9_AnyDates ==
    output.fn = "sortShifts" =>
    \A i, j \in DOMAIN input :
        LessStr(ShiftKey(input[i]), ShiftKey(input[j]))
            <=> DateThenTime(input[i], input[j])

\* C9 amended: comparing date+startTime is comparing by date, then by
\* startTime, for all strings such that neither date is a proper prefix of
\* the other (dates of one length, such as YYYY-MM-DD, never are).
C9_NoPrefixDates ==
    output.fn = "sortShifts" =>
    \A i, j \in DOMAIN input :
        ~ProperPrefix(input[i].date, input[j].date)
            /\ ~ProperPrefix(input[j].date, input[i].date)
        => (LessStr(ShiftKey(input[i]), ShiftKey(input[j]))
                <=> DateThenTime(input[i], input[j]))

\* sorted rows with dates of different lengths, neither a prefix of the
\* other, the longer date first
C9_Witness ==
    /\ output.fn = "sortShifts"
    /\ \E k \in 1..(Len(output.value) - 1) :
          /\ Len(output.value[k].date) > Len(output.value[k + 1].date)
          /\ ~ProperPrefix(output.value[k + 1].date, output.value[k].date)
          /\ LessStr(ShiftKey(output.value[k]), ShiftKey(output.value[k + 1]))

Unreadable(file) == file.kind # "array"

\* the store with every unreadable collection replaced by an empty one
AsEmpty(st) ==
    [c \in DOMAIN st |-> IF Unreadable(st[c]) THEN ArrayFile(<<>>) ELSE st[c]]

\* the last call made again on store st
Replay(st) ==
    CASE IsCall("addNewEmployee") -> addNewEmployee(st, result.arg1, result.arg2)
      [] IsCall("assignEmployeeToShift") ->
            assignEmployeeToShift(st, result.arg1, result.arg2)
      [] IsCall("getEmployeeSchedule") -> getEmployeeSchedule(st, result.arg1)

\* C10: a collection that is missing, no JSON or no array reads as the
\* empty list without an exception; every operation then does what it does
\* on an empty collection (unreadable employees: assignEmployeeToShift
\* answers "Employee does not exist", addNewEmployee generates E001,
\* getEmployeeSchedule returns ok:false) and throws nothing.
C10_UnreadableIsEmpty ==
    /\ \A file \in {employeesFile, shiftsFile, assignmentsFile} :
          Unreadable(file) => readJsonArray(file) = Ok(<<>>)
    /\ ~IsCall("none") =>
          /\ ~result.threw
          /\ Call(result.op, result.arg1, result.arg2, Replay(AsEmpty(pre)).res) = result
          /\ AsEmpty(Store) = Replay(AsEmpty(pre)).store
    /\ ~IsCall("none") /\ Unreadable(pre.employees) =>
          /\ IsCall("assignEmployeeToShift")
               /\ TrimArg(result.arg1) # <<>> /\ TrimArg(result.arg2) # <<>>
             => Says(FALSE, "Employee does not exist")
          /\ IsCall("addNewEmployee") /\ result.ok
             => /\ Len(Employees(Store)) = 1
                /\ Employees(Store)[1].employeeId = Str(E001)
          /\ IsCall("getEmployeeSchedule") => ~result.ok

\* an employee was added to an employees.json that held an object
C10_Witness ==
    /\ IsCall("addNewEmployee") /\ result.ok
    /\ pre.employees.kind = "object" /\ pre.employees.data # <<>>
    /\ Unreadable(shiftsFile)

\* minutes in a number of hours
InMinutes(hours) == (hours.num * 60) \div hours.den

\* the numeric components of a time of day, or <<>> when the text does not
\* split on ":" into exactly two numbers with 0<=HH<=23 and 0<=MM<=59
TimeOfDay(v) ==
    LET text == IF v.t = "string" THEN Trim(v.s) ELSE <<>>
        colons == {k \in DOMAIN text : text[k] = ":"}
    IN
    IF Cardinality(colons) # 1 THEN <<>>
    ELSE LET at == CHOOSE k \in colons : TRUE
             hh == Trim(SubSeq(text, 1, at - 1))
             mm == Trim(SubSeq(text, at + 1, Len(text)))
         IN
         IF hh = <<>> \/ mm = <<>> \/ ~AllDigits(hh) \/ ~AllDigits(mm) THEN <<>>
         ELSE IF DigitsValue(hh, 0) > 23 \/ DigitsValue(mm, 0) > 59 THEN <<>>
         ELSE <<DigitsValue(hh, 0), DigitsValue(mm, 0)>>

ClaimedMinutes(startTime, endTime) ==
    LET s == TimeOfDay(startTime)
        e == TimeOfDay(endTime)
    IN
    IF s = <<>> \/ e = <<>> THEN 0
    ELSE LET start == s[1] * 60 + s[2]
             end == e[1] * 60 + e[2]
         IN IF end >= start THEN end - start ELSE end + 1440 - start

\* C11: computeShiftDuration, in minutes, is 0 whenever either argument
\* does not split on ":" into exactly two numeric components in range, and
\* otherwise end - start, plus 1440 when end < start; it lies in [0, 1440).
C11_ShiftDuration ==
    output.fn = "computeShiftDuration" =>
        /\ ~output.threw
        /\ InMinutes(output.value) = ClaimedMinutes(input[1], input[2])
        /\ InMinutes(output.value) >= 0 /\ InMinutes(output.value) < 1440

\* C12: every operation is append-only. A failed addNewEmployee, a failed
\* assignEmployeeToShift and every getEmployeeSchedule leave the three
\* collections as they were; a successful addNewEmployee changes only the
\* employees, to the previous ones followed by one record of the generated
\* id, the trimmed name and the trimmed phone; a successful
\* assignEmployeeToShift changes only the assignments, to the previous
\* ones followed by one record of the trimmed ids; shifts.json is never
\* written. The previous contents are what the collection reads as.
C12_AppendOnly ==
    ~IsCall("none") =>
        /\ shiftsFile = pre.shifts
        /\ ~result.ok \/ IsCall("getEmployeeSchedule") => Unchanged
        /\ IsCall("addNewEmployee") /\ result.ok =>
              /\ assignmentsFile = pre.assignments
              /\ employeesFile.kind = "array"
              /\ Len(Employees(Store)) = Len(Employees(pre)) + 1
              /\ SubSeq(Employees(Store), 1, Len(Employees(pre))) = Employees(pre)
              /\ LET new == Employees(Store)[Len(Employees(Store))] IN
                 /\ new.name = TrimArg(result.arg1)
                 /\ new.phone = TrimArg(result.arg2)
                 /\ new.employeeId.t = "string"
                 /\ Head(new.employeeId.s) = "E"
                 /\ \A k \in DOMAIN Employees(pre) :
                       ClaimedSuffix(new.employeeId)
                           > ClaimedSuffix(Employees(pre)[k].employeeId)
        /\ IsCall("assignEmployeeToShift") /\ result.ok =>
              /\ employeesFile = pre.employees
              /\ assignmentsFile.kind = "array"
              /\ Assignments(Store)
                    = Append(Assignments(pre),
                             Assignment(TrimArg(result.arg1), TrimArg(result.arg2)))

\* an assignment was appended behind two that were on file
C12_Witness ==
    /\ IsCall("assignEmployeeToShift") /\ result.ok
    /\ Len(Assignments(pre)) = 2
    /\ Len(Assignments(Store)) = 3
    /\ Len(Employees(Store)) = 2

\* what every step keeps and every call sees of the employees and the
\* assignments written so far; the answer to a repeated
\* assignEmployeeToShift(e, s) is required when RepeatWhen(s) holds
LatestData(RepeatWhen(_)) ==
    LET e == TrimArg(result.arg1)
        s == TrimArg(result.arg2)
    IN
    /\ \A k \in DOMAIN Employees(pre) :
          \E i \in DOMAIN Employees(Store) : Employees(Store)[i] = Employees(pre)[k]
    /\ \A k \in DOMAIN Assignments(pre) :
          \E i \in DOMAIN Assignments(Store) : Assignments(Store)[i] = Assignments(pre)[k]
    /\ IsCall("addNewEmployee") /\ result.ok =>
          \E i \in DOMAIN Employees(Store) :
              \A k \in DOMAIN Employees(pre) :
                  Employees(pre)[k].employeeId # Employees(Store)[i].employeeId
    /\ IsCall("assignEmployeeToShift") /\ result.ok => Places(Store, e, s) # {}
    /\ IsCall("assignEmployeeToShift") /\ EmployeeStored(pre, e) =>
          ~result.threw /\ result.message # "Employee does not exist"
    /\ IsCall("getEmployeeSchedule") /\ EmployeeStored(pre, e) =>
          /\ Says(TRUE, "")
          /\ \A k \in DOMAIN Shifts(pre) :
                Places(pre, e, Shifts(pre)[k].shiftId) # {} =>
                    \E i \in DOMAIN result.rows : result.rows[i] = Shifts(pre)[k]
    /\ IsCall("assignEmployeeToShift") /\ Places(pre, e, s) # {} /\ RepeatWhen(s) =>
          Says(FALSE, "Employee already assigned to shift")

AnyShift(s) == TRUE
StillStored(s) == ShiftStored(pre, s)

\* C13 as stated: once addNewEmployee returned ok:true its id is found by
\* every later assignEmployeeToShift and getEmployeeSchedule; once
\* assignEmployeeToShift(e, s) returned ok:true every later
\* getEmployeeSchedule(e) is ok:true with s among its rows while s is in
\* shifts.json, and every later assignEmployeeToShift(e, s) answers
\* "Employee already assigned to shift", whether s is still in shifts.json
\* or not.
C13_AlwaysAlreadyAssigned == LatestData(AnyShift)

\* C13: as above, with the answer "Employee already assigned to shift" to a
\* later assignEmployeeToShift(e, s) while s is still in shifts.json.
C13_LatestData == LatestData(StillStored)

\* the pair was recorded, two other calls went by, and the pair is asked
\* for again
C13_Witness ==
    /\ IsCall("assignEmployeeToShift")
    /\ Says(FALSE, "Employee already assigned to shift")
    /\ TrimArg(result.arg1) = E002
    /\ Len(Assignments(pre)) = 3
    /\ Assignments(pre)[1] = Assignment(E002, TrimArg(result.arg2))
    /\ ~ShiftStored(pre, S1)

\* C14: given the same typed employee id and shift id, empty and blank
\* lines included, assignment1.js assignEmployeeToShift and presentation.js
\* assignEmployeeMenu print the same message and leave the same
\* assignments.json, after every sequence of assign requests; both print
\* "Invalid input." when a typed id is empty.
C14_SameMessageSameAssignments ==
    output.fn = "assignEmployeeToShift" =>
        /\ output.value.printed = result.message
        /\ output.value.store.assignments = assignmentsFile
        /\ Trim(input[1]) = <<>> \/ Trim(input[2]) = <<>> =>
              /\ result.message = "Invalid input."
              /\ output.value.printed = "Invalid input."

====
